---- MODULE Spec2Model ----
(***************************************************************************)
(* tauri-plugin-screenshot-hd: the plugin setup, the worker thread running *)
(* serve_loop, and take_screenshot with the native thread that runs the    *)
(* with_webview closure and the takeSnapshot completion handler.           *)
(*                                                                         *)
(* A url is a sequence of tokens; the tokens "?" and "&" are the           *)
(* separators the code splits on, "wait=" is the five-character prefix     *)
(* the code tests with starts_with, every other token is opaque text.      *)
(* Time is counted in milliseconds on the timer of the worker's current    *)
(* blocking call (thread::sleep, recv_timeout of the channel).              *)
(***************************************************************************)
EXTENDS Integers, Sequences, FiniteSets, TLC

\* ---------------------------------------------------------------- bounds
MaxRequests == 2      \* requests the clients send in one run
MaxQueue == 1         \* requests waiting in the server's queue
MaxWindows == 2       \* windows the host creates under the label in one run
MaxFires == 2         \* times the native layer may call one completion handler
ClockMaxMs == 60000   \* the longest duration the clock counts, in ms

\* ------------------------------------------------------ program constants
CeilingSecs == 10
MsPerSec == 1000
\* Duration::from_secs(10), in ms
CeilingMs == CeilingSecs * MsPerSec
\* the step of the clock: a blocking call is observed at its start, every
\* TickMs after it, and at its deadline
TickMs == CeilingMs \div 2

None == <<>>
Some(x) == <<x>>
IsSome(o) == o # None
Unwrap(o) == o[1]

Min(a, b) == IF a <= b THEN a ELSE b

\* ------------------------------------------------------------------ urls
Methods == {"GET", "POST"}

Urls ==
  { <<"/screenshot">>,
    <<"/eval">>,
    <<"/eval", "?", "x", "&", "wait=", "5", "0", "0", "0">>,
    <<"/other">> }

\* str::split: the pieces of s between the tokens equal to sep; done holds
\* the pieces already closed and cur the piece being read
RECURSIVE SplitFrom(_, _, _, _)
SplitFrom(s, sep, done, cur) ==
  IF s = <<>> THEN Append(done, cur)
  ELSE IF Head(s) = sep THEN SplitFrom(Tail(s), sep, Append(done, cur), <<>>)
  ELSE SplitFrom(Tail(s), sep, done, Append(cur, Head(s)))

Split(s, sep) == SplitFrom(s, sep, <<>>, <<>>)

\* url.split('?').next().unwrap_or(&url)
PathOf(url) == Head(Split(url, "?"))

Digits == {"0", "1", "2", "3", "4", "5", "6", "7", "8", "9"}
DigitVal(c) ==
  CASE c = "0" -> 0 [] c = "1" -> 1 [] c = "2" -> 2 [] c = "3" -> 3
    [] c = "4" -> 4 [] c = "5" -> 5 [] c = "6" -> 6 [] c = "7" -> 7
    [] c = "8" -> 8 [] c = "9" -> 9

RECURSIVE DecValue(_, _)
DecValue(s, acc) ==
  IF s = <<>> THEN acc ELSE DecValue(Tail(s), acc * 10 + DigitVal(Head(s)))

\* u64::MAX, 18446744073709551615, in decimal digits
U64MaxDigits ==
  << "1", "8", "4", "4", "6", "7", "4", "4", "0", "7",
     "3", "7", "0", "9", "5", "5", "1", "6", "1", "5" >>

\* the digits of s without its leading zeros
RECURSIVE StripZeros(_)
StripZeros(s) ==
  IF s # <<>> /\ Head(s) = "0" THEN StripZeros(Tail(s)) ELSE s

\* of two digit strings of one length, a is the greater number
RECURSIVE Greater(_, _)
Greater(a, b) ==
  IF a = <<>> THEN FALSE
  ELSE IF Head(a) # Head(b) THEN DigitVal(Head(a)) > DigitVal(Head(b))
  ELSE Greater(Tail(a), Tail(b))

\* the checked_mul / checked_add of the parse fail: the number is above u64::MAX
Overflows(n) ==
  Len(n) > Len(U64MaxDigits) \/ (Len(n) = Len(U64MaxDigits) /\ Greater(n, U64MaxDigits))

\* the number as the clock counts it: ClockMaxMs stands for every duration
\* of ClockMaxMs or more
Millis(n) == IF Len(n) > 9 THEN ClockMaxMs ELSE Min(DecValue(n, 0), ClockMaxMs)

\* str::parse::<u64>().ok(): an optional "+", then one or more digits,
\* None when the number does not fit u64
ParseU64(s) ==
  LET d == IF s # <<>> /\ Head(s) = "+" THEN Tail(s) ELSE s
  IN  IF d = <<>> \/ \E i \in 1..Len(d) : d[i] \notin Digits
      THEN None
      ELSE IF Overflows(StripZeros(d)) THEN None
      ELSE Some(Millis(StripZeros(d)))

\* Iterator::find(|p| p.starts_with("wait="))
RECURSIVE FindWaitParsing(_)
RECURSIVE FindWait(_)
FindWaitParsing(ps) ==
  IF ps = <<>> THEN None
  ELSE IF Head(ps) # <<>> /\ Head(Head(ps)) = "wait=" /\ ParseU64(Tail(Head(ps))) # None
       THEN Some(Head(ps))
  ELSE FindWaitParsing(Tail(ps))
FindWait(ps) ==
  IF ps = <<>> THEN None
  ELSE IF Head(ps) # <<>> /\ Head(Head(ps)) = "wait=" THEN Some(Head(ps))
  ELSE FindWait(Tail(ps))

\* url.split('?').nth(1).and_then(|qs| qs.split('&').find(..).and_then(|p| p[5..].parse().ok()))
WaitMs(url) ==
  LET parts == Split(url, "?")
  IN  IF Len(parts) < 2 THEN None
      ELSE LET p == FindWait(Split(parts[2], "&"))
           IN  IF p = None THEN None ELSE ParseU64(Tail(Unwrap(p)))

\* ----------------------------------------------------------------- state
VARIABLES
  build,        \* cfg of the build: target_os = "macos", and debug_assertions or feature "release"
  setup,        \* the plugin's setup closure: "pending" or "ok"
  server,       \* tiny_http::Server::http: "none" before the call, then "listening" or "failed"
  pc,           \* position of the worker thread
  hostWindow,   \* the window the host application holds under window_label
  made,         \* windows the host has created so far
  window_cell,  \* serve_loop's OnceLock
  lookups,      \* calls of app_handle.get_webview_window so far
  queue,        \* requests accepted by the listener, not yet received by the worker
  sent,         \* requests sent so far; a request's id is its rank
  request,      \* the request the worker holds
  elapsed,      \* time spent in the worker's current blocking call, in ms
  deadline,     \* the duration that call was given, in ms
  received,     \* requests the worker has received so far
  answered,     \* calls of request.respond so far
  trace,        \* what the worker has done for the request it holds, in order
  last,         \* the exchange just completed (request, trace, response), until the next begins
  tx,           \* per capture, where the sending half of its channel is
  rx,           \* per capture, the receiving half of its channel
  chan,         \* per capture, the messages sent and not yet received
  fires         \* per capture, calls so far of the completion handler its block holds

vars == << build, setup, server, pc, hostWindow, made, window_cell, lookups, queue, sent,
           request, elapsed, deadline, received, answered, trace, last, tx, rx, chan, fires >>

hostVars == << hostWindow, made >>
clientVars == << queue, sent >>
nativeVars == << tx, rx, chan, fires >>
obsVars == << received, answered, trace, last >>

Ids == 1..MaxRequests
Windows == 1..MaxWindows

Images == {"pngA", "pngB"}
Ok(b) == <<"Ok", b>>
Err(m) == <<"Err", m>>
IsOk(r) == r[1] = "Ok"

\* what the native layer hands the completion handler and what the
\* conversions NSImage -> TIFF -> NSBitmapImageRep -> PNG yield
NativeInputs ==
  { [ns_image |-> FALSE, desc |-> Some("localizedDescription"), tiff |-> FALSE,
     rep |-> FALSE, png |-> None] }
  \cup
  { [ns_image |-> TRUE, desc |-> None, tiff |-> TRUE, rep |-> TRUE, png |-> Some(b)] :
      b \in Images }

\* the message the completion handler passes to tx.send
CompletionHandler(n) ==
  IF ~n.ns_image
  THEN Err(IF n.desc = None THEN "takeSnapshot failed" ELSE Unwrap(n.desc))
  ELSE IF ~n.tiff THEN Err("TIFFRepresentation nil")
  ELSE IF ~n.rep THEN Err("NSBitmapImageRep nil")
  ELSE IF n.png = None THEN Err("PNG conversion nil")
  ELSE Ok(Unwrap(n.png))

Unsupported == "Native screenshots are only supported on macOS"
WithWebviewError == "with_webview: error"
TimeoutError == "snapshot timeout: timed out waiting on channel"
DisconnectedError == "snapshot timeout: channel is empty and sending half is closed"

Usage == "tauri-plugin-screenshot-hd usage"
NotFoundYet == "window not found yet"
TextPlain == "text/plain; charset=UTF-8"

\* tiny_http::Response::from_string(body).with_status_code(status)
FromString(body, status) == [status |-> status, ctype |-> TextPlain, body |-> body]
\* tiny_http::Response::from_data(bytes).with_header("Content-Type: image/png")
FromData(bytes) == [status |-> 200, ctype |-> "image/png", body |-> bytes]

Init ==
  /\ build \in [macos : BOOLEAN, enabled : BOOLEAN]
  /\ setup = "pending"
  /\ server = "none"
  /\ pc = "none"
  /\ hostWindow = None
  /\ made = 0
  /\ window_cell = None
  /\ lookups = 0
  /\ queue = <<>>
  /\ sent = 0
  /\ request = None
  /\ elapsed = 0
  /\ deadline = 0
  /\ received = 0
  /\ answered = 0
  /\ trace = <<>>
  /\ last = None
  /\ tx = [i \in Ids |-> "none"]
  /\ rx = [i \in Ids |-> "none"]
  /\ chan = [i \in Ids |-> <<>>]
  /\ fires = [i \in Ids |-> 0]

\* -------------------------------------------------------- plugin and host
\* init_with's setup closure: returns Ok(()) at once in a build without
\* debug_assertions and without the "release" feature, else spawns the worker
Setup ==
  /\ setup = "pending"
  /\ setup' = "ok"
  /\ pc' = IF build.enabled THEN "bind" ELSE pc
  /\ UNCHANGED << build, server, hostVars, window_cell, lookups, clientVars, request, elapsed,
                  deadline, obsVars, nativeVars >>

\* the worker's first step, tiny_http::Server::http(&addr)
\* match Server::http(&addr) { Ok(s) => s, Err(e) => { log::warn!(..); return } }
AfterBindServeAnyway(ok) == "poll"
AfterBind(ok) == IF ok THEN "poll" ELSE "exited"

Bind ==
  /\ pc = "bind"
  /\ \E ok \in BOOLEAN :
       /\ server' = IF ok THEN "listening" ELSE "failed"
       /\ pc' = AfterBind(ok)
  /\ UNCHANGED << build, setup, hostVars, window_cell, lookups, clientVars, request,
                  elapsed, deadline, obsVars, nativeVars >>

\* the host application creates the window named window_label
CreateWindow ==
  /\ hostWindow = None
  /\ made < MaxWindows
  /\ made' = made + 1
  /\ hostWindow' = Some(made + 1)
  /\ UNCHANGED << build, setup, server, pc, window_cell, lookups, clientVars, request, elapsed,
                  deadline, obsVars, nativeVars >>

\* the host application closes it
CloseWindow ==
  /\ hostWindow # None
  /\ hostWindow' = None
  /\ UNCHANGED << build, setup, server, pc, made, window_cell, lookups, clientVars, request,
                  elapsed, deadline, obsVars, nativeVars >>

\* Manager::get_webview_window(&window_label)
LookupAlwaysNone == None
get_webview_window == hostWindow

Listening == pc \notin {"none", "bind", "exited"}

\* a client connects and sends a request
Send ==
  /\ Listening
  /\ sent < MaxRequests
  /\ Len(queue) < MaxQueue
  /\ \E m \in Methods, u \in Urls :
       queue' = Append(queue, [id |-> sent + 1, method |-> m, url |-> u])
  /\ sent' = sent + 1
  /\ UNCHANGED << build, setup, server, pc, hostVars, window_cell, lookups, request, elapsed,
                  deadline, obsVars, nativeVars >>

\* time passes while the worker is blocked
Tick ==
  /\ elapsed < deadline
  /\ elapsed' = Min(elapsed + TickMs, deadline)
  /\ UNCHANGED << build, setup, server, pc, hostVars, window_cell, lookups, clientVars, request,
                  deadline, obsVars, nativeVars >>

\* ----------------------------------------------------------- serve_loop
req == Unwrap(request)

\* request.respond(r) followed by the next iteration of the loop; evs is
\* what the worker did for the request since the last step
Respond(r, evs) ==
  /\ last' = Some([req |-> req, trace |-> trace \o evs \o <<"respond">>, resp |-> r])
  /\ answered' = answered + 1
  /\ trace' = <<>>
  /\ request' = None
  /\ pc' = "poll"
  /\ elapsed' = 0
  /\ deadline' = 0
  /\ UNCHANGED received

\* a step that goes on to position p without responding; d is the
\* duration of the blocking call at p, 0 where p does not block
Block(p, d, evs) ==
  /\ trace' = trace \o evs
  /\ pc' = p
  /\ elapsed' = 0
  /\ deadline' = d
  /\ UNCHANGED << request, received, answered, last >>

Goto(p, evs) == Block(p, 0, evs)

\* the positions at which the worker calls server.recv_timeout
PollingOrWaiting == pc \in {"poll", "sleep"}
Polling == pc = "poll"

\* server.recv_timeout(500ms) returns Ok(Some(r))
Recv ==
  /\ Polling
  /\ queue # <<>>
  /\ request' = Some(Head(queue))
  /\ queue' = Tail(queue)
  /\ received' = received + 1
  /\ trace' = <<"recv">>
  /\ last' = None
  /\ pc' = "resolve"
  /\ elapsed' = 0
  /\ deadline' = 0
  /\ UNCHANGED << build, setup, server, hostVars, window_cell, lookups, sent, answered,
                  nativeVars >>

\* server.recv_timeout(500ms) returns Ok(None), or Err(_): continue
PollTimeoutLookingUp ==
  /\ pc = "poll"
  /\ queue = <<>>
  /\ lookups < MaxRequests
  /\ lookups' = lookups + 1
  /\ window_cell' = IF window_cell = None THEN get_webview_window ELSE window_cell
  /\ UNCHANGED << build, setup, server, pc, hostVars, clientVars, request, elapsed,
                  deadline, obsVars, nativeVars >>
PollTimeout ==
  /\ pc = "poll"
  /\ queue = <<>>
  /\ UNCHANGED vars

PollError ==
  /\ pc = "poll"
  /\ UNCHANGED vars

\* OnceLock::get and OnceLock::set
CellGetNone(cell) == None
CellGet(cell) == cell
CellSet(cell, w) == IF cell = None THEN Some(w) ELSE cell

NotReadyAsNotFound == FromString(NotFoundYet, 404)
NotReadyResponse == FromString(NotFoundYet, 503)

\* the lazy window lookup
Resolve ==
  /\ pc = "resolve"
  /\ IF CellGet(window_cell) # None
     THEN /\ Goto("route", <<>>)
          /\ UNCHANGED << window_cell, lookups >>
     ELSE /\ lookups' = lookups + 1
          /\ IF get_webview_window # None
             THEN /\ window_cell' = CellSet(window_cell, Unwrap(get_webview_window))
                  /\ Goto("route", <<"lookup_some">>)
             ELSE /\ Respond(NotReadyResponse, <<"lookup_none">>)
                  /\ UNCHANGED window_cell
  /\ UNCHANGED << build, setup, server, hostVars, clientVars, nativeVars >>

UsageAsOk == FromString(Usage, 200)
UsageResponse == FromString(Usage, 404)

\* match path { "/screenshot" => .., "/eval" => .., _ => .. }
RouteOfByMethod(url) ==
  LET path == PathOf(url)
  IN  CASE path = <<"/screenshot">> /\ req.method = "GET" -> "shot"
        [] path = <<"/eval">> /\ req.method = "POST" -> "body"
        [] OTHER -> "usage"
RouteOf(url) ==
  LET path == PathOf(url)
  IN  CASE path = <<"/screenshot">> -> "shot"
        [] path = <<"/eval">> -> "body"
        [] OTHER -> "usage"

Route ==
  /\ pc = "route"
  /\ IF RouteOf(req.url) = "usage"
     THEN Respond(UsageResponse, <<>>)
     ELSE Goto(RouteOf(req.url), <<>>)
  /\ UNCHANGED << build, setup, server, hostVars, window_cell, lookups, clientVars, nativeVars >>

ReadErrorResponse == FromString("read error", 400)

\* if let Err(e) = read_to_string(..) { respond 400; continue }
AfterReadIgnoringError(ok) == "eval"
AfterRead(ok) == IF ok THEN "eval" ELSE "error"

\* request.as_reader().read_to_string(&mut body)
ReadBody ==
  /\ pc = "body"
  /\ \E ok \in BOOLEAN :
       LET ev == IF ok THEN "read_ok" ELSE "read_err"
       IN  IF AfterRead(ok) = "eval" THEN Goto("eval", <<ev>>)
           ELSE Respond(ReadErrorResponse, <<ev>>)
  /\ UNCHANGED << build, setup, server, hostVars, window_cell, lookups, clientVars, nativeVars >>

EvalErrorResponse == FromString("eval error", 500)
\* tiny_http::Response::from_string("ok")
OkResponseEmpty == FromString("", 200)
OkResponse == FromString("ok", 200)

\* if let Err(e) = window.eval(&body) { respond 500; continue }, then
\* if let Some(ms) = wait_ms { sleep; capture } else { respond "ok" }
AfterEvalWaitFirst(ok, wait_ms) ==
  IF IsSome(wait_ms) THEN "sleep" ELSE IF ~ok THEN "error" ELSE "ok"
AfterEval(ok, wait_ms) ==
  IF ~ok THEN "error" ELSE IF IsSome(wait_ms) THEN "sleep" ELSE "ok"

\* window.eval(&body), then the wait parameter
Eval ==
  /\ pc = "eval"
  /\ \E ok \in BOOLEAN :
       LET ev == IF ok THEN "eval_ok" ELSE "eval_err"
           wait_ms == WaitMs(req.url)
           then == AfterEval(ok, wait_ms)
       IN  CASE then = "error" -> Respond(EvalErrorResponse, <<ev>>)
             [] then = "sleep" -> Block("sleep", Unwrap(wait_ms), <<ev, "sleep">>)
             [] then = "ok" -> Respond(OkResponse, <<ev>>)
  /\ UNCHANGED << build, setup, server, hostVars, window_cell, lookups, clientVars, nativeVars >>

\* std::thread::sleep(Duration::from_millis(ms)) returns
SleepOverAtOnce == TRUE
SleepOver == elapsed >= deadline

Wake ==
  /\ pc = "sleep"
  /\ SleepOver
  /\ Goto("shot", <<"woke">>)
  /\ UNCHANGED << build, setup, server, hostVars, window_cell, lookups, clientVars, nativeVars >>

\* ------------------------------------------------------- take_screenshot
\* the response built from take_screenshot's result under "/screenshot"
ScreenshotResponse(result) ==
  IF IsOk(result) THEN FromData(result[2]) ELSE FromString(result[2], 504)

\* the response built from take_screenshot's result under "/eval" with a wait
EvalWaitNoHeader(result) ==
  IF IsOk(result) THEN [status |-> 200, ctype |-> TextPlain, body |-> result[2]]
  ELSE FromString(result[2], 504)
EvalWaitResponse(result) ==
  IF IsOk(result) THEN FromData(result[2]) ELSE FromString(result[2], 504)

CaptureResponse(result) ==
  IF RouteOf(req.url) = "shot" THEN ScreenshotResponse(result)
  ELSE EvalWaitResponse(result)

\* take_screenshot up to the blocking read: the stub of the other targets
\* returns its error; on macOS the channel is created and the closure is
\* handed to with_webview, whose failure is returned at once
TakeScreenshot ==
  /\ pc = "shot"
  /\ IF ~build.macos
     THEN /\ Respond(CaptureResponse(Err(Unsupported)), <<"capture", "captured">>)
          /\ UNCHANGED nativeVars
     ELSE \E ok \in BOOLEAN :
            IF ok
            THEN /\ tx' = [tx EXCEPT ![req.id] = "queued"]
                 /\ rx' = [rx EXCEPT ![req.id] = "open"]
                 /\ Block("recv", CeilingMs, <<"capture">>)
                 /\ UNCHANGED << chan, fires >>
            ELSE /\ tx' = [tx EXCEPT ![req.id] = "dropped"]
                 /\ rx' = [rx EXCEPT ![req.id] = "dropped"]
                 /\ Respond(CaptureResponse(Err(WithWebviewError)), <<"capture", "captured">>)
                 /\ UNCHANGED << chan, fires >>
  /\ UNCHANGED << build, setup, server, hostVars, window_cell, lookups, clientVars >>

\* rx.recv_timeout(10 s) returns and take_screenshot with it; rx is dropped
Returned(result) ==
  /\ rx' = [rx EXCEPT ![req.id] = "dropped"]
  /\ chan' = [chan EXCEPT ![req.id] = <<>>]
  /\ Respond(CaptureResponse(result), <<"captured">>)
  /\ UNCHANGED << build, setup, server, hostVars, window_cell, lookups, clientVars, tx, fires >>

TimedOutNever == FALSE
TimedOutAtHalf == elapsed >= deadline \div 2
TimedOut == elapsed >= deadline
SenderGoneNever(i) == FALSE
SenderGone(i) == tx[i] = "dropped"

RecvMessage ==
  /\ pc = "recv"
  /\ chan[req.id] # <<>>
  /\ Returned(Head(chan[req.id]))

RecvTimeout ==
  /\ pc = "recv"
  /\ chan[req.id] = <<>>
  /\ TimedOut
  /\ Returned(Err(TimeoutError))

RecvDisconnected ==
  /\ pc = "recv"
  /\ chan[req.id] = <<>>
  /\ SenderGone(req.id)
  /\ Returned(Err(DisconnectedError))

\* ------------------------------------------------------ the native thread
workerVars == << pc, window_cell, lookups, request, elapsed, deadline, obsVars >>

\* the main thread runs the with_webview closure: takeSnapshot is issued
RunClosure(i) ==
  /\ tx[i] = "queued"
  /\ tx' = [tx EXCEPT ![i] = "snapshotting"]
  /\ UNCHANGED << build, setup, server, hostVars, clientVars, workerVars, rx, chan, fires >>

\* the closure is dropped without having run
DropClosure(i) ==
  /\ tx[i] = "queued"
  /\ tx' = [tx EXCEPT ![i] = "dropped"]
  /\ UNCHANGED << build, setup, server, hostVars, clientVars, workerVars, rx, chan, fires >>

\* Sender::send: queues the message unless the receiver is gone
SendToAbandoned(i, msg) == Append(chan[i], msg)
SendToOverwriting(i, msg) == IF rx[i] = "open" THEN <<msg>> ELSE chan[i]
SendTo(i, msg) == IF rx[i] = "open" THEN Append(chan[i], msg) ELSE chan[i]

\* the native layer calls the completion handler
Fire(i) ==
  /\ tx[i] = "snapshotting"
  /\ fires[i] < MaxFires
  /\ \E n \in NativeInputs : chan' = [chan EXCEPT ![i] = SendTo(i, CompletionHandler(n))]
  /\ fires' = [fires EXCEPT ![i] = @ + 1]
  /\ UNCHANGED << build, setup, server, hostVars, clientVars, workerVars, tx, rx >>

\* the native layer releases the completion handler block, and tx with it
ReleaseBlock(i) ==
  /\ tx[i] = "snapshotting"
  /\ tx' = [tx EXCEPT ![i] = "dropped"]
  /\ fires' = [fires EXCEPT ![i] = 0]
  /\ UNCHANGED << build, setup, server, hostVars, clientVars, workerVars, rx, chan >>

\* ------------------------------------------------------------------ spec
Worker ==
  \/ Bind
  \/ Recv
  \/ PollTimeout
  \/ PollError
  \/ Resolve
  \/ Route
  \/ ReadBody
  \/ Eval
  \/ Wake
  \/ TakeScreenshot
  \/ RecvMessage
  \/ RecvTimeout
  \/ RecvDisconnected

Native ==
  \E i \in Ids : RunClosure(i) \/ DropClosure(i) \/ Fire(i) \/ ReleaseBlock(i)

Next ==
  \/ Setup
  \/ CreateWindow
  \/ CloseWindow
  \/ Send
  \/ Tick
  \/ Worker
  \/ Native

Spec == Init /\ [][Next]_vars

\* ----------------------------------------------- requests with wait values
\* /eval urls whose query strings exercise the parsing of the wait value
WaitEmpty == <<"/eval", "?", "wait=">>
WaitNegative == <<"/eval", "?", "wait=", "-", "1">>
WaitNonNumeric == <<"/eval", "?", "wait=", "5", "x">>
WaitU64Max == <<"/eval", "?", "wait=">> \o U64MaxDigits
WaitOverflowing ==
  <<"/eval", "?", "wait=", "1", "8", "4", "4", "6", "7", "4", "4", "0", "7",
    "3", "7", "0", "9", "5", "5", "1", "6", "1", "6">>
WaitInvalidThenValid == <<"/eval", "?", "wait=", "x", "&", "wait=", "5", "0", "0", "0">>
WaitValidThenInvalid == <<"/eval", "?", "wait=", "5", "0", "0", "0", "&", "wait=", "x">>
WaitAfterSecondMark == <<"/eval", "?", "x", "?", "wait=", "5", "0", "0", "0">>
WaitSecondParam == <<"/eval", "?", "x", "&", "wait=", "+", "5">>
WaitLeadingZeros ==
  <<"/eval", "?", "wait=", "0", "0", "0", "0", "0", "0", "0", "0", "0", "0", "0",
    "0", "0", "0", "0", "0", "0", "0", "0", "0", "0", "0", "7">>
WaitZero == <<"/eval", "?", "wait=", "0">>

WaitUrls ==
  { WaitEmpty, WaitNegative, WaitNonNumeric, WaitU64Max, WaitOverflowing,
    WaitInvalidThenValid, WaitValidThenInvalid, WaitAfterSecondMark, WaitSecondParam,
    WaitLeadingZeros, WaitZero }

\* a client sends one of them
SendWait ==
  /\ Listening
  /\ sent < MaxRequests
  /\ Len(queue) < MaxQueue
  /\ \E u \in WaitUrls :
       queue' = Append(queue, [id |-> sent + 1, method |-> "POST", url |-> u])
  /\ sent' = sent + 1
  /\ UNCHANGED << build, setup, server, pc, hostVars, window_cell, lookups, request, elapsed,
                  deadline, obsVars, nativeVars >>

WaitNext ==
  \/ Setup
  \/ CreateWindow
  \/ SendWait
  \/ Tick
  \/ Worker
  \/ Native

WaitSpec == Init /\ [][WaitNext]_vars

\* the worker thread is scheduled and time passes; nothing obliges the
\* clients, the host or the native layer to act
FairSpec == Spec /\ WF_vars(Worker) /\ WF_vars(Tick)

\* ------------------------------------------------------------ vocabulary
Has(tr, ev) == \E k \in 1..Len(tr) : tr[k] = ev
IsPrefix(s, t) == Len(s) <= Len(t) /\ \A k \in 1..Len(s) : s[k] = t[k]
\* the exchange just completed
Exchange == Unwrap(last)
\* no channel was made for the request of the exchange just completed
NoCapture == tx[Exchange.req.id] = "none" /\ rx[Exchange.req.id] = "none"
\* the worker takes a step on the request it holds
WorkerStep == request # None /\ (pc' # pc \/ request' # request)
\* the worker answers the request it holds in this step
Answers == request # None /\ request' = None

\* C1: a request for which the host's lookup of the window returns none is
\* answered 503 in that very step and nothing else is done for it, on any
\* path: no body read, no script, no wait, no capture, no channel.
C1_NotReadyRunsNothing ==
  /\ [][(pc = "resolve" /\ window_cell = None /\ hostWindow = None /\ WorkerStep)
          => /\ last' = Some([req |-> req,
                              trace |-> <<"recv", "lookup_none", "respond">>,
                              resp |-> [status |-> 503, ctype |-> TextPlain,
                                        body |-> NotFoundYet]])
             /\ answered' = answered + 1
             /\ pc' = "poll"
             /\ nativeVars' = nativeVars]_vars
  /\ [](~Has(trace, "lookup_none"))
  /\ []((last # None /\ Has(Exchange.trace, "lookup_none"))
          => /\ Exchange.trace = <<"recv", "lookup_none", "respond">>
             /\ Exchange.resp.status = 503
             /\ NoCapture)

\* C1 witness: a POST to /eval with a wait parameter was answered 503
C1_Witness ==
  /\ last # None
  /\ Exchange.resp.status = 503
  /\ Exchange.req.method = "POST"
  /\ RouteOf(Exchange.req.url) = "body"
  /\ IsSome(WaitMs(Exchange.req.url))

\* C2: once a lookup has succeeded the cell keeps that handle for good and
\* the host is never asked again; a lookup that succeeds is the first to
\* succeed and fills the empty cell.
C2_ResolveOnce ==
  /\ [][window_cell # None => (window_cell' = window_cell /\ lookups' = lookups)]_vars
  /\ [][(lookups' # lookups /\ hostWindow # None)
          => (window_cell = None /\ window_cell' = hostWindow)]_vars
  /\ [](window_cell = None
          => /\ ~Has(trace, "lookup_some")
             /\ last # None => ~Has(Exchange.trace, "lookup_some"))

\* C2 witness: the second request was served from the cached handle,
\* without any lookup, while the host holds another window under the label
C2_Witness ==
  /\ window_cell # None
  /\ hostWindow # None
  /\ hostWindow # window_cell
  /\ lookups = 1
  /\ answered = 2
  /\ last # None
  /\ ~Has(Exchange.trace, "lookup_some")
  /\ ~Has(Exchange.trace, "lookup_none")

\* C3 as stated: a request with an unknown path is answered 404 with the
\* usage text whatever the state of the surface.
C3_UnknownPathAlways404 ==
  [][(Answers /\ RouteOf(req.url) = "usage")
       => last'[1].resp = [status |-> 404, ctype |-> TextPlain, body |-> Usage]]_vars

\* C3 amended: a request with an unknown path is answered 404 with the usage
\* text when the window is resolved (cached, or found by this request's
\* lookup), and 503 when the lookup returns none.
C3_UnknownPath404WhenResolved ==
  [][(Answers /\ RouteOf(req.url) = "usage")
       => last'[1].resp =
            IF window_cell' # None
            THEN [status |-> 404, ctype |-> TextPlain, body |-> Usage]
            ELSE [status |-> 503, ctype |-> TextPlain, body |-> NotFoundYet]]_vars

\* C3 witness: after a lookup that returned none, a later lookup succeeded
\* and a request with an unknown path was answered 404 with the usage text
C3_Witness ==
  /\ last # None
  /\ RouteOf(Exchange.req.url) = "usage"
  /\ Exchange.resp.status = 404
  /\ Exchange.resp.body = Usage
  /\ lookups = 2

\* C4: every request the worker receives is answered, exactly once, on
\* every path, and the worker is back at polling when it has answered.
C4_EveryRequestAnswered ==
  /\ [](answered + (IF request = None THEN 0 ELSE 1) = received)
  /\ [][answered' # answered
          => /\ answered' = answered + 1
             /\ request # None /\ request' = None
             /\ pc' = "poll"
             /\ last' # None /\ last'[1].req = req]_vars
  /\ \A i \in Ids : (received = i) ~> (answered = i)

\* C4 witness: both requests were answered, the second an /eval with a wait
\* whose capture timed out with the callback never fired, and the worker is
\* polling again
C4_Witness ==
  /\ pc = "poll"
  /\ request = None
  /\ received = 2
  /\ answered = 2
  /\ last # None
  /\ Exchange.resp = [status |-> 504, ctype |-> TextPlain, body |-> TimeoutError]
  /\ RouteOf(Exchange.req.url) = "body"
  /\ fires[Exchange.req.id] = 0
  /\ tx[Exchange.req.id] = "snapshotting"

\* C5: at most one request is in flight: the request the worker holds is
\* the only one received and not yet answered, also while the worker
\* sleeps; the requests in the queue have not been touched.
C5_OneInFlight ==
  /\ received - answered \in {0, 1}
  /\ (received - answered = 1) <=> (request # None)
  /\ request # None => req.id = received
  /\ (trace # <<>>) <=> (request # None)
  /\ \A k \in 1..Len(queue) : queue[k].id > received

\* C5 witness: the worker is part-way through the wait of an eval request
\* while another request sits in the queue, untouched
C5_Witness ==
  /\ pc = "sleep"
  /\ elapsed > 0
  /\ queue # <<>>
  /\ received - answered = 1

\* C6: a request whose script execution failed is answered 500 in the step
\* of the failed execution, and neither a wait nor a capture happens for it,
\* with or without a wait parameter.
C6_EvalFailureShortCircuits ==
  /\ ~Has(trace, "eval_err")
  /\ (last # None /\ Has(Exchange.trace, "eval_err"))
       => /\ Exchange.trace \in
               { <<"recv", "read_ok", "eval_err", "respond">>,
                 <<"recv", "lookup_some", "read_ok", "eval_err", "respond">> }
          /\ Exchange.resp.status = 500
          /\ NoCapture

\* C6 witness: an eval request carrying a valid wait parameter failed in the script
C6_Witness ==
  /\ last # None
  /\ Has(Exchange.trace, "eval_err")
  /\ Exchange.resp.status = 500
  /\ WaitMs(Exchange.req.url) = Some(5000)

\* C7: for an eval request with a wait, the script runs before the wait
\* begins, the wait lasts the whole requested time before the capture is
\* issued, and the capture has returned before the response is sent.
EvalWaitOrder ==
  { <<"recv", "read_ok", "eval_ok", "sleep", "woke", "capture", "captured", "respond">>,
    <<"recv", "lookup_some", "read_ok", "eval_ok", "sleep", "woke", "capture", "captured",
      "respond">> }

C7_EvalWaitOrdered ==
  /\ [](Has(trace, "sleep")
          => /\ \E o \in EvalWaitOrder : IsPrefix(trace, o)
             /\ tx[req.id] # "none" => Has(trace, "capture"))
  /\ []((last # None /\ Has(Exchange.trace, "sleep")) => Exchange.trace \in EvalWaitOrder)
  /\ [][(pc = "sleep" /\ pc' # "sleep") => elapsed >= Unwrap(WaitMs(req.url))]_vars

\* C7 witness: an eval request with a 5000 ms wait went through script,
\* wait and capture and was answered with what the capture returned
C7_Witness ==
  /\ last # None
  /\ Exchange.trace \in EvalWaitOrder
  /\ WaitMs(Exchange.req.url) = Some(5000)
  /\ Exchange.resp.status \in {200, 504}

\* C8: a capture whose completion handler is still pending and has sent
\* nothing returns only by the timeout, no earlier than 10 s after the
\* blocking read began; the timeout failure is never returned before 10 s;
\* the blocking read always returns; the request is answered 504.
C8_TimeoutAtCeiling ==
  /\ [][(pc = "recv" /\ pc' # "recv" /\ chan[req.id] = <<>> /\ tx[req.id] # "dropped")
          => /\ elapsed >= 10 * 1000
             /\ last'[1].resp = [status |-> 504, ctype |-> TextPlain, body |-> TimeoutError]]_vars
  /\ [][(answered' # answered /\ last'[1].resp.body = TimeoutError)
          => (elapsed >= 10 * 1000 /\ last'[1].resp.status = 504)]_vars
  /\ \A i \in Ids : (rx[i] = "open") ~> (rx[i] = "dropped")

\* C8 witness: a /screenshot request whose completion handler never fired
\* was answered 504 with the timeout failure
C8_Witness ==
  /\ last # None
  /\ Exchange.resp = [status |-> 504, ctype |-> TextPlain, body |-> TimeoutError]
  /\ RouteOf(Exchange.req.url) = "shot"
  /\ tx[Exchange.req.id] \in {"queued", "snapshotting"}
  /\ fires[Exchange.req.id] = 0

\* C9: when the blocking read finds a success sent by the completion
\* handler, the response is 200, image/png, with exactly the bytes sent,
\* under /screenshot and under /eval with a wait alike.
C9_SuccessBytes ==
  [][(pc = "recv" /\ pc' # "recv" /\ chan[req.id] # <<>> /\ IsOk(Head(chan[req.id])))
       => /\ last'[1].req = req
          /\ last'[1].resp =
               [status |-> 200, ctype |-> "image/png", body |-> Head(chan[req.id])[2]]]_vars

\* C9 witness: an /eval request with a wait was answered with the image the
\* completion handler sent, the second of the two images
C9_Witness ==
  /\ last # None
  /\ RouteOf(Exchange.req.url) = "body"
  /\ Exchange.resp = [status |-> 200, ctype |-> "image/png", body |-> "pngB"]
  /\ fires[Exchange.req.id] = 1

\* C10: an eval request whose body cannot be read is answered 400 in the
\* step of the failed read; no script, no wait, no capture.
C10_UnreadableBody ==
  /\ ~Has(trace, "read_err")
  /\ (last # None /\ Has(Exchange.trace, "read_err"))
       => /\ Exchange.trace \in
               { <<"recv", "read_err", "respond">>,
                 <<"recv", "lookup_some", "read_err", "respond">> }
          /\ Exchange.resp.status = 400
          /\ NoCapture

\* C10 witness: an eval request with a wait parameter was answered 400
C10_Witness ==
  /\ last # None
  /\ Has(Exchange.trace, "read_err")
  /\ Exchange.resp.status = 400
  /\ RouteOf(Exchange.req.url) = "body"
  /\ IsSome(WaitMs(Exchange.req.url))

\* C11: an eval request without a wait parameter whose script ran is
\* answered 200 with the body "ok" in the step of the execution, and no
\* wait and no capture happen for it.
C11_EvalNoWaitAcknowledged ==
  /\ ~(Has(trace, "eval_ok") /\ WaitMs(req.url) = None)
  /\ (last # None /\ Has(Exchange.trace, "eval_ok") /\ WaitMs(Exchange.req.url) = None)
       => /\ Exchange.trace \in
               { <<"recv", "read_ok", "eval_ok", "respond">>,
                 <<"recv", "lookup_some", "read_ok", "eval_ok", "respond">> }
          /\ Exchange.resp.status = 200
          /\ Exchange.resp.body = "ok"
          /\ NoCapture

\* C11 witness: a request for /eval, no query string, was answered "ok"
C11_Witness ==
  /\ last # None
  /\ Exchange.req.url = <<"/eval">>
  /\ Has(Exchange.trace, "eval_ok")
  /\ Exchange.resp.body = "ok"

\* C12: when binding the listen address fails the worker thread ends: it
\* does not bind again, receives and answers no request, looks up no
\* window, and the plugin's setup has returned Ok.
C12_BindFailureTerminates ==
  /\ [](server = "failed"
          => /\ pc = "exited"
             /\ setup = "ok"
             /\ received = 0
             /\ answered = 0
             /\ request = None
             /\ lookups = 0
             /\ window_cell = None)
  /\ [][server = "failed" => (server' = "failed" /\ pc' = "exited")]_vars
  /\ [](pc = "exited" => server = "failed")

\* C12 witness: the bind failed, the worker has ended, and the host has
\* its window, which nobody looked up
C12_Witness ==
  /\ server = "failed"
  /\ pc = "exited"
  /\ setup = "ok"
  /\ hostWindow # None
  /\ lookups = 0

\* the native call of capture j is outstanding: its closure waits on the
\* main thread, or takeSnapshot has been issued and has not completed
Outstanding(j) == tx[j] = "queued" \/ (tx[j] = "snapshotting" /\ fires[j] = 0)
\* the worker calls window.eval, or take_screenshot reaches with_webview
IssuesNativeCall ==
  /\ request # None
  /\ pc' # pc
  /\ pc = "eval" \/ (pc = "shot" /\ build.macos)

\* C13 as stated: no script execution and no capture is issued against the
\* window while an earlier native call on it is outstanding, also after a
\* capture abandoned by the timeout.
C13_NoReentrantNativeCall ==
  [][IssuesNativeCall => \A j \in Ids : ~Outstanding(j)]_vars

\* C13 witness: the capture of the first request was abandoned with its
\* snapshot still pending, and the capture of the second has been issued too
C13_Witness ==
  /\ request # None
  /\ req.id = 2
  /\ pc = "recv"
  /\ tx[2] = "snapshotting" /\ fires[2] = 0
  /\ tx[1] = "snapshotting" /\ fires[1] = 0
  /\ rx[1] = "dropped"

\* C14: a completion handler that fires after its capture was abandoned
\* changes nothing but its own count: what it sends is dropped. Every
\* capture starts on a channel of its own, a channel holds only what its
\* own handler sent, and the capture returns the head of its own channel,
\* or its own timeout or disconnection.
C14_LateCallbackDiscarded ==
  /\ [](\A i \in Ids : rx[i] # "open" => chan[i] = <<>>)
  /\ [][\A i \in Ids : (rx[i] = "dropped" /\ fires'[i] = fires[i] + 1)
          => (chan' = chan /\ rx' = rx /\ tx' = tx /\ workerVars' = workerVars)]_vars
  /\ [][(pc = "shot" /\ pc' = "recv")
          => /\ tx[req.id] = "none" /\ rx[req.id] = "none"
             /\ chan[req.id] = <<>> /\ fires[req.id] = 0
             /\ chan' = chan]_vars
  /\ [][\A i \in Ids : chan'[i] # chan[i]
          => IF Len(chan'[i]) > Len(chan[i])
             THEN fires'[i] = fires[i] + 1 /\ rx[i] = "open"
             ELSE request # None /\ i = req.id /\ pc = "recv" /\ pc' = "poll"]_vars
  /\ [][(pc = "recv" /\ pc' # "recv")
          => LET r == last'[1].resp
                 own == chan[req.id]
             IN  IF own = <<>>
                 THEN r.status = 504 /\ r.body \in {TimeoutError, DisconnectedError}
                 ELSE IF IsOk(Head(own))
                 THEN r = [status |-> 200, ctype |-> "image/png", body |-> Head(own)[2]]
                 ELSE r = [status |-> 504, ctype |-> TextPlain, body |-> Head(own)[2]]]_vars

\* C14 witness: a capture was answered with the timeout, and its
\* completion handler has fired since: the channel is gone and empty
C14_Witness ==
  /\ last # None
  /\ Exchange.resp.body = TimeoutError
  /\ fires[Exchange.req.id] = 1
  /\ rx[Exchange.req.id] = "dropped"
  /\ chan[Exchange.req.id] = <<>>

\* C15: a second call of one capture's completion handler is a no-op for
\* the caller: it changes nothing of the worker, leaves the first message
\* at the head of the channel and touches no other channel; the capture
\* returns the first message sent.
C15_SecondCompletionNoOp ==
  /\ [][\A i \in Ids : (fires[i] >= 1 /\ fires'[i] = fires[i] + 1)
          => /\ workerVars' = workerVars
             /\ tx' = tx /\ rx' = rx
             /\ \A j \in Ids \ {i} : chan'[j] = chan[j]
             /\ IF rx[i] = "open"
                THEN chan[i] # <<>> /\ Head(chan'[i]) = Head(chan[i])
                ELSE chan'[i] = chan[i]]_vars
  /\ [](\A i \in Ids : (rx[i] = "open" /\ tx[i] = "snapshotting") => Len(chan[i]) = fires[i])
  /\ [][(pc = "recv" /\ pc' # "recv" /\ Len(chan[req.id]) >= 2)
          => LET first == chan[req.id][1]
             IN  last'[1].resp =
                   IF IsOk(first)
                   THEN [status |-> 200, ctype |-> "image/png", body |-> first[2]]
                   ELSE [status |-> 504, ctype |-> TextPlain, body |-> first[2]]]_vars

\* C15 witness: the handler of the capture the worker waits on has fired
\* twice, with one image and then the other
C15_Witness ==
  /\ pc = "recv"
  /\ fires[req.id] = 2
  /\ chan[req.id] = << Ok("pngA"), Ok("pngB") >>

\* C16: a lookup that returned none leaves the cell empty, and while the
\* cell is empty every received request makes exactly one lookup; the
\* lookup of the first request that finds the window fills the cell and the
\* request goes on to routing.
C16_FailedLookupNotCached ==
  /\ [][(pc = "resolve" /\ window_cell = None /\ WorkerStep)
          => /\ lookups' = lookups + 1
             /\ IF hostWindow # None
                THEN /\ window_cell' = hostWindow
                     /\ pc' = "route"
                     /\ request' = request
                     /\ answered' = answered
                ELSE /\ window_cell' = None
                     /\ last'[1].resp.status = 503]_vars
  /\ [](window_cell = None => lookups = received - (IF pc = "resolve" THEN 1 ELSE 0))
  /\ [][lookups' \in {lookups, lookups + 1}]_vars

\* C16 witness: the first request found no window, the second found it by
\* a lookup of its own and was answered "ok"
C16_Witness ==
  /\ lookups = 2
  /\ window_cell # None
  /\ last # None
  /\ Exchange.req.id = 2
  /\ Has(Exchange.trace, "lookup_some")
  /\ Exchange.resp = [status |-> 200, ctype |-> TextPlain, body |-> "ok"]

\* C17: the window is looked up lazily: never before the first request is
\* received, only in the lookup step of a request the worker holds, and
\* not while the worker stays at the poll; polling leaves the cell as it is.
C17_LazyResolution ==
  /\ [](received = 0 => (lookups = 0 /\ window_cell = None))
  /\ [][(lookups' # lookups \/ window_cell' # window_cell)
          => (request # None /\ pc = "resolve")]_vars
  /\ [][(pc \in {"none", "bind", "poll"} /\ pc' \in {"bind", "poll", "exited"})
          => (lookups' = lookups /\ window_cell' = window_cell)]_vars

\* C17 witness: the worker polls an empty queue while the host has
\* created its window, closed it and created it again; nothing was looked up
C17_Witness ==
  /\ server = "listening"
  /\ pc = "poll"
  /\ queue = <<>>
  /\ received = 0
  /\ hostWindow # None
  /\ made = 2
  /\ lookups = 0
  /\ window_cell = None

\* the operation a trace shows: reading the body (and what follows it),
\* capturing, or neither
OperationOf(tr) ==
  IF Has(tr, "read_ok") \/ Has(tr, "read_err") THEN "eval"
  ELSE IF Has(tr, "capture") THEN "capture"
  ELSE "usage"
\* the operation the text of a url before its first "?" selects
OperationFor(url) ==
  LET path == PathOf(url)
  IN  IF path = <<"/eval">> THEN "eval"
      ELSE IF path = <<"/screenshot">> THEN "capture"
      ELSE "usage"

\* C18: the treatment of a request is a function of its url before the
\* first "?" alone: with any method, once the window is resolved, the
\* operation run is the one that text selects, the worker's position agrees
\* with it, and the reply to any other text is 404 with the usage text.
C18_MethodNotConsulted ==
  /\ (last # None /\ ~Has(Exchange.trace, "lookup_none"))
       => /\ OperationOf(Exchange.trace) = OperationFor(Exchange.req.url)
          /\ OperationFor(Exchange.req.url) = "usage"
               => Exchange.resp = [status |-> 404, ctype |-> TextPlain, body |-> Usage]
          /\ OperationFor(Exchange.req.url) = "capture" => Exchange.resp.status \in {200, 504}
          /\ OperationFor(Exchange.req.url) = "eval"
               => Exchange.resp.status \in {200, 400, 500, 504}
  /\ request # None
       => /\ pc \in {"body", "eval", "sleep"} => OperationFor(req.url) = "eval"
          /\ pc \in {"shot", "recv"} => OperationFor(req.url) \in {"eval", "capture"}
          /\ (pc \in {"shot", "recv"} /\ ~Has(trace, "woke")) => OperationFor(req.url) = "capture"
          /\ OperationOf(trace) \in {"usage", OperationFor(req.url)}

\* C18 witness: a POST to /screenshot was answered with an image
C18_Witness ==
  /\ last # None
  /\ Exchange.req.method = "POST"
  /\ Exchange.req.url = <<"/screenshot">>
  /\ Exchange.resp.status = 200
  /\ Exchange.resp.ctype = "image/png"

\* the urls whose first parameter starting with "wait=" has a value that
\* is empty, negative, non-numeric or above u64::MAX
InvalidWaits == {WaitEmpty, WaitNegative, WaitNonNumeric, WaitOverflowing, WaitInvalidThenValid}
\* the urls whose first such parameter has a value that is a u64, with the
\* duration it stands for
ValidWaits ==
  { <<WaitValidThenInvalid, 5000>>, <<WaitSecondParam, 5>>, <<WaitLeadingZeros, 7>>,
    <<WaitZero, 0>>, <<WaitU64Max, ClockMaxMs>> }

\* C19: the wait value is that of the first parameter starting with
\* "wait="; when it is no u64 the request is handled as an eval without
\* wait, whatever follows it: the script runs, the answer is "ok", there is
\* no sleep and no capture. When it is a u64 the worker sleeps that long.
C19_InvalidWaitIsNoWait ==
  /\ (request # None /\ req.url \in InvalidWaits)
       => /\ pc \notin {"sleep", "shot", "recv"}
          /\ ~Has(trace, "sleep")
          /\ ~Has(trace, "eval_ok")
          /\ tx[req.id] = "none"
  /\ (last # None /\ Exchange.req.url \in InvalidWaits /\ Has(Exchange.trace, "read_ok"))
       => /\ Has(Exchange.trace, "eval_ok") \/ Has(Exchange.trace, "eval_err")
          /\ Has(Exchange.trace, "eval_ok")
               => /\ Exchange.trace \in
                       { <<"recv", "read_ok", "eval_ok", "respond">>,
                         <<"recv", "lookup_some", "read_ok", "eval_ok", "respond">> }
                  /\ Exchange.resp = [status |-> 200, ctype |-> TextPlain, body |-> "ok"]
                  /\ NoCapture
  /\ \A v \in ValidWaits :
       /\ (request # None /\ req.url = v[1] /\ pc = "sleep") => deadline = v[2]
       /\ (last # None /\ Exchange.req.url = v[1] /\ Has(Exchange.trace, "eval_ok"))
            => (Has(Exchange.trace, "woke") /\ Has(Exchange.trace, "captured"))

\* C19 witness: a request whose first wait value is "x" and whose second
\* is 5000 was answered "ok"
C19_Witness ==
  /\ last # None
  /\ Exchange.req.url = WaitInvalidThenValid
  /\ Has(Exchange.trace, "eval_ok")
  /\ Exchange.resp.body = "ok"

\* C20: a capture can fail before the ceiling with nothing sent. When
\* with_webview fails, take_screenshot returns that error in the same step,
\* no channel read is made, and the answer is 504. When the sender is
\* dropped with nothing sent, the blocking read can return at any time,
\* without waiting for the ceiling, and the answer is 504 with the
\* disconnection error.
C20_EarlyCaptureFailure ==
  /\ [][(pc = "shot" /\ build.macos /\ pc' = "poll")
          => /\ last'[1].resp = [status |-> 504, ctype |-> TextPlain, body |-> WithWebviewError]
             /\ rx'[req.id] # "open"
             /\ chan' = chan
             /\ Has(last'[1].trace, "captured")]_vars
  /\ [](pc = "recv" /\ chan[req.id] = <<>> /\ tx[req.id] = "dropped"
          => ENABLED RecvDisconnected)
  /\ [][(pc = "recv" /\ pc' # "recv" /\ chan[req.id] = <<>> /\ elapsed < 10 * 1000)
          => /\ tx[req.id] = "dropped"
             /\ last'[1].resp = [status |-> 504, ctype |-> TextPlain, body |-> DisconnectedError]]_vars

\* C20 witness: the closure of a /screenshot request was dropped without
\* running; the request was answered 504 with the disconnection error
C20_Witness ==
  /\ last # None
  /\ Exchange.req.url = <<"/screenshot">>
  /\ Exchange.resp = [status |-> 504, ctype |-> TextPlain, body |-> DisconnectedError]
  /\ tx[Exchange.req.id] = "dropped"
  /\ fires[Exchange.req.id] = 0

====
